---- MODULE Spec2Model ----
(***************************************************************************)
(* Message lifecycle of the ASM worker: the polling loop of                *)
(* ServiceBusClient, the retry engine MessageProcessor.ProcessMessage, the *)
(* lease renewal supervisor processMessageWithRenewal with its handler and *)
(* renewer goroutines, and TaskHandler.HandleTask.                         *)
(***************************************************************************)
EXTENDS Integers, Sequences, FiniteSets, TLC

\* ------------------------------------------------------------------------
\* Bounds of the model
\* ------------------------------------------------------------------------
MaxMessages == 2
MaxTicks == 1
MaxCount == 2
MaxSubdomains == 2
MaxWorkers == 2

\* ------------------------------------------------------------------------
\* Program constants
\* ------------------------------------------------------------------------
maxRetries == 3
baseDelay == 1
retryLimit == 3
shardCount == 16

Attempts == 0..maxRetries

ErrorTypes ==
  {"validation", "configuration", "network", "timeout",
   "permission", "not_found", "internal", "scanner"}

\* Variant of IsRetryable: configuration errors fall into the default branch
IsRetryableConfigDefault(t) ==
  CASE t \in {"network", "timeout", "scanner"} -> TRUE
    [] t \in {"validation", "permission", "not_found"} -> FALSE
    [] OTHER -> TRUE

\* Variant of AppError.IsRetryable: an internal error is permanent
IsRetryableInternalPermanent(t) ==
  CASE t \in {"network", "timeout", "scanner"} -> TRUE
    [] t \in {"validation", "configuration", "permission", "not_found"} -> FALSE
    [] OTHER -> FALSE

\* AppError.IsRetryable
IsRetryable(t) ==
  CASE t \in {"network", "timeout", "scanner"} -> TRUE
    [] t \in {"validation", "configuration", "permission", "not_found"} -> FALSE
    [] OTHER -> TRUE

\* models.MessageProcessingResult
Res(s, r, c, e) == [success |-> s, retryable |-> r, retryCount |-> c, err |-> e]

NoResult == Res(FALSE, FALSE, 0, "none")

\* Body of a received message: not JSON, a TaskMessage that fails
\* validation, a TaskMessage that passes it
Messages == {"bad_json", "invalid", "valid"}

VARIABLES
  ctxCancelled,     \* the worker's parent context is done (shutdown)
  received,         \* number of messages received so far
  msg,              \* the message of the current receipt
  wpc,              \* position of the worker goroutine
  attempt,          \* loop variable of ProcessMessage
  result,           \* loop-local result of ProcessMessage / its return value
  hpc,              \* per attempt: position of the handler goroutine
  rpc,              \* position of the renewer goroutine of the latest attempt
  opCtx,            \* operationCtx of the latest attempt
  done,             \* channel done of the latest attempt (capacity 1)
  renewalError,     \* channel renewalError of the latest attempt (capacity 1)
  renewals,         \* RenewMessageLock calls issued by that renewer
  ticksTaken,       \* ticks that renewer received from ticker.C
  storeRes,         \* per attempt: outcome of the handler's blob write
  failClass,        \* what the failed attempts of this receipt had in common
  waits,            \* backoff delays that elapsed for this receipt
  invocations,      \* handler invocations for this receipt
  blobWrites,       \* successful blob writes for this receipt
  callbacks,        \* completion events delivered for this receipt
  finalOps,         \* broker operations invoked for this receipt
  leaked            \* a handler of an earlier receipt has not returned yet

\* One call of TaskHandler.HandleTask, one call of DNSXScanner.Execute and
\* one call of ServiceBusClient.handleMessageResult, each taken on its own:
\* [pc |-> "idle"] before the call, then the record the call builds
VARIABLES
  taskCall,
  dnsxCall,
  finalizeCall

lifecycleVars ==
  <<ctxCancelled, received, msg, wpc, attempt, result, hpc, rpc, opCtx,
    done, renewalError, renewals, ticksTaken, storeRes, failClass, waits,
    invocations, blobWrites, callbacks, finalOps, leaked>>

vars == <<lifecycleVars, taskCall, dnsxCall, finalizeCall>>

Running == {"run", "store", "notify"}

\* Counters of the ledger saturate at MaxCount ("MaxCount or more")
Inc(n) == IF n < MaxCount THEN n + 1 ELSE n

\* ------------------------------------------------------------------------
\* Pure functions of the code
\* ------------------------------------------------------------------------

\* Variant of shouldRetryMessage: the comparison is <= instead of <
shouldRetryMessageInclusive(r) == r.retryable /\ r.retryCount <= retryLimit

\* ServiceBusClient.shouldRetryMessage
shouldRetryMessage(r) == r.retryable /\ r.retryCount < retryLimit

\* Variant of handleMessageResult: no return after CompleteMessage
handleMessageResultNoReturn(r) ==
  IF r.success THEN <<"complete", "dead_letter">>
  ELSE IF shouldRetryMessage(r) THEN <<"abandon">>
  ELSE <<"dead_letter">>

\* ServiceBusClient.handleMessageResult: the broker operations it invokes
handleMessageResult(r) ==
  IF r.success THEN <<"complete">>
  ELSE IF shouldRetryMessage(r) THEN <<"abandon">>
  ELSE <<"dead_letter">>

\* handleMessageResult: the options argument of AbandonMessage and of
\* DeadLetterMessage is nil: no PropertiesToModify, no Reason, no
\* ErrorDescription
NilOptions == [properties |-> {}, reason |-> "", description |-> ""]

AbandonOptions(carried, r) == NilOptions

DeadLetterOptions(r) == NilOptions

\* Variant of BackoffDelay: linear instead of doubling
BackoffDelayLinear(att) == baseDelay * (att + 1)

\* ProcessMessage: delay := baseDelay * (1 << attempt)
BackoffDelay(att) == baseDelay * (2 ^ att)

\* ProcessMessage: what the loop does with the result of an attempt
EngineDecision(r, att) ==
  IF r.success THEN "return"
  ELSE IF ~r.retryable \/ att = maxRetries THEN "return"
  ELSE "backoff"

\* Variant of CancelledResult: RetryCount is left at its zero value
CancelledResultNoCount(att) == Res(FALSE, FALSE, 0, "context")

\* ProcessMessage: result returned when ctx is done
CancelledResult(att) == Res(FALSE, FALSE, att, "context")

\* processMessageWithRenewal: the three results it builds itself
\* (RenewalFailureResultPermanent: variant with Retryable false;
\* ParseFailureResultRetryable: variant with Retryable true)
ParseFailureResultRetryable == Res(FALSE, TRUE, 0, "parse")
ParseFailureResult == Res(FALSE, FALSE, 0, "parse")
OperationCtxResult == Res(FALSE, TRUE, 0, "context")
RenewalFailureResultPermanent(e) == Res(FALSE, FALSE, 0, e)
RenewalFailureResult(e) == Res(FALSE, TRUE, 0, e)

\* TaskHandler.createFailureResult
createFailureResult(e, retryable) == Res(FALSE, retryable, 0, e)

SuccessResult == Res(TRUE, FALSE, 0, "none")

\* Notifier.NotifyCompletionWithRetry: the POST fails `failures` times
\* before it succeeds; returns the POSTs made, the waits and the outcome.
RECURSIVE NotifyLoop(_, _, _, _)

\* Variant of NotifyLoop: the loop gives up one attempt later
NotifyLoopOneMore(i, failures, ctxDone, acc) ==
  LET posted == [acc EXCEPT !.posts = @ + 1] IN
  IF i >= failures THEN [posted EXCEPT !.delivered = 1]
  ELSE IF i = maxRetries + 1 THEN [posted EXCEPT !.err = "exhausted"]
  ELSE IF ctxDone THEN [posted EXCEPT !.err = "context"]
  ELSE NotifyLoop(i + 1, failures, ctxDone,
                  [posted EXCEPT !.waits = Append(@, BackoffDelay(i))])

NotifyLoop(i, failures, ctxDone, acc) ==
  LET posted == [acc EXCEPT !.posts = @ + 1] IN
  IF i >= failures THEN [posted EXCEPT !.delivered = 1]
  ELSE IF i = maxRetries THEN [posted EXCEPT !.err = "exhausted"]
  ELSE IF ctxDone THEN [posted EXCEPT !.err = "context"]
  ELSE NotifyLoop(i + 1, failures, ctxDone,
                  [posted EXCEPT !.waits = Append(@, BackoffDelay(i))])

NotifyCompletionWithRetry(failures, ctxDone) ==
  NotifyLoop(0, failures, ctxDone,
             [posts |-> 0, delivered |-> 0, waits |-> <<>>, err |-> "none"])

\* No call of NotifyCompletionWithRetry was made
NoAttempts == [posts |-> 0, delivered |-> 0, waits |-> <<>>, err |-> "none"]

\* sendCompletionNotification: the run of NotifyCompletionWithRetry it
\* starts, if any, for a POST that fails `failures` times in a row
CompletionAttempts(configured, instanceId, failures) ==
  IF configured /\ instanceId # ""
    THEN NotifyCompletionWithRetry(failures, FALSE)
    ELSE NoAttempts

\* What the failed attempts so far have in common, after one more failure e
Classify(e) ==
  CASE e = "lock_renewal" -> "renewal"
    [] e = "storage" -> "storage"
    [] e \in {"network", "timeout", "scanner"} -> "transient"
    [] OTHER -> "mixed"

NextFailClass(old, r) ==
  IF r.success THEN old
  ELSE IF old = "none" \/ old = Classify(r.err) THEN Classify(r.err)
  ELSE "mixed"

\* ------------------------------------------------------------------------
\* TaskHandler: messages, validation, scanner registry
\* ------------------------------------------------------------------------

\* Task kinds a message may carry; the first four are models.Task constants
TaskKinds ==
  {"subfinder", "httpx", "dns_resolve", "port_scan", "nuclei", "dnsx",
   "unknown_xyz", ""}

\* Domains a message may carry: missing, malformed, well-formed
Domains == {"", "-bad.example.com", "example.com"}

TaskMessages ==
  [kind : TaskKinds, domain : Domains, scanId : {0, 7}, instanceId : {"", "I1"}]

\* A call with message m through entry point e
Call(e, m) == [entry |-> e, kind |-> m.kind, domain |-> m.domain,
               scanId |-> m.scanId, instanceId |-> m.instanceId]

\* Validator.ValidateDomain: "ok" or the error
ValidateDomain(d) ==
  IF d = "" THEN "domain is required"
  ELSE IF d = "-bad.example.com"
    THEN "domain must start and end with alphanumeric character"
  ELSE "ok"

\* Variant of isValidTaskType: every kind is accepted
isValidTaskTypeAny(k) == TRUE

\* Validator.isValidTaskType
isValidTaskType(k) == k \in {"subfinder", "httpx", "dns_resolve", "port_scan"}

\* Validator.ValidateTaskMessage: "ok" or the error
ValidateTaskMessage(m) ==
  IF m.domain = "" THEN "domain is required for task processing"
  ELSE IF ValidateDomain(m.domain) # "ok" THEN ValidateDomain(m.domain)
  ELSE IF m.scanId = 0 THEN "scan_id is required"
  ELSE IF m.kind = "" THEN "task type is required"
  ELSE IF ~isValidTaskType(m.kind) THEN "invalid task type"
  ELSE "ok"

\* Variant of validateTaskMessage: the failure is marked retryable
validateTaskMessageRetryable(m) ==
  IF ValidateTaskMessage(m) # "ok"
    THEN createFailureResult(ValidateTaskMessage(m), TRUE)
    ELSE SuccessResult

\* TaskHandler.validateTaskMessage
validateTaskMessage(m) ==
  IF ValidateTaskMessage(m) # "ok"
    THEN createFailureResult(ValidateTaskMessage(m), FALSE)
    ELSE SuccessResult

\* The scanners NewScannerFactoryWithBlobClient registers
RegisteredScanners == {"subfinder", "httpx", "dns_resolve", "port_scan"}

\* ScannerFactory.GetScanner: the scanner or "error"
GetScanner(k) == IF k \in RegisteredScanners THEN k ELSE "error"

\* processTask: the scanner it goes on with after the lookup
LookupScanner(k) ==
  IF GetScanner(k) = "error" THEN GetScanner("subfinder") ELSE GetScanner(k)

\* processTask: the typed input it builds
ScannerInput(m) ==
  [type |-> CASE m.kind = "subfinder" -> "SubfinderInput"
              [] m.kind = "httpx" -> "HttpxInput"
              [] m.kind = "dns_resolve" -> "DNSXInput"
              [] m.kind = "port_scan" -> "NaabuInput"
              [] OTHER -> "SubfinderInput",
   domain |-> m.domain]

\* BaseScanner.ValidateInput / Validator.ValidateScannerInput
ValidateInput(input) ==
  IF input.domain = "" THEN "domain is required"
  ELSE IF ValidateDomain(input.domain) # "ok" THEN "invalid domain format"
  ELSE "ok"

\* Outcomes of a call that can fail: success or an error of some kind
Outcomes == {"ok"} \cup ErrorTypes

\* ------------------------------------------------------------------------
\* ErrorClassifier: errors that are not an AppError
\* ------------------------------------------------------------------------

\* Texts of errors that are not an AppError, each a sequence of words;
\* the patterns below are sequences of words too, so that a text contains
\* a pattern when the pattern's words occur in it in a row
ErrorTexts ==
  {<<"unknown", "task", "type">>, <<"Domain", "is", "required">>,
   <<"invalid", "domain", "format">>, <<"not", "yet", "implemented">>,
   <<"Permission", "denied">>, <<"unauthorized">>, <<"forbidden">>,
   <<"host", "not", "found">>,
   <<"invalid", "input", "type">>, <<"Invalid", "port">>,
   <<"scan_id", "is", "required">>, <<"task", "type", "is", "required">>,
   <<"connection", "refused">>, <<"i/o", "Timeout">>, <<"context", "canceled">>,
   <<"unexpected", "EOF">>, <<"disk", "full">>}

\* strings.ToLower, on the words the texts are made of
ToLowerWord(w) ==
  CASE w = "Domain" -> "domain"
    [] w = "Permission" -> "permission"
    [] w = "Invalid" -> "invalid"
    [] w = "Timeout" -> "timeout"
    [] w = "EOF" -> "eof"
    [] OTHER -> w

\* strings.ToLower
ToLower(text) == [i \in 1..Len(text) |-> ToLowerWord(text[i])]

\* strings.Contains
Contains(text, pattern) ==
  \E i \in 0..(Len(text) - Len(pattern)) :
    SubSeq(text, i + 1, i + Len(pattern)) = pattern

\* ClassifyError: permanentErrors
permanentErrors ==
  {<<"unknown", "task", "type">>, <<"domain", "is", "required">>,
   <<"invalid", "domain">>, <<"not", "yet", "implemented">>,
   <<"permission", "denied">>, <<"unauthorized">>, <<"forbidden">>,
   <<"not", "found">>, <<"invalid">>, <<"scan_id", "is", "required">>,
   <<"task", "type", "is", "required">>}

\* ClassifyError: retryableErrors
retryableErrors ==
  {<<"timeout">>, <<"connection">>, <<"network">>, <<"temporary">>,
   <<"rate", "limit">>, <<"throttle">>, <<"service", "unavailable">>,
   <<"internal", "server", "error">>, <<"bad", "gateway">>,
   <<"gateway", "timeout">>, <<"context", "deadline", "exceeded">>,
   <<"context", "canceled">>}

\* Variant of ClassifyError: an error that matches no pattern is a
\* validation error
ClassifyErrorDefaultPermanent(o, text) ==
  IF o # "untyped" THEN o
  ELSE IF \E p \in permanentErrors : Contains(ToLower(text), p) THEN "validation"
  ELSE IF \E p \in retryableErrors : Contains(ToLower(text), p) THEN "network"
  ELSE "validation"

\* ErrorClassifier.ClassifyError: the kind of the AppError it returns for
\* an AppError of kind o, or for an error of another type (o = "untyped")
\* with the given text
ClassifyError(o, text) ==
  IF o # "untyped" THEN o
  ELSE IF \E p \in permanentErrors : Contains(ToLower(text), p) THEN "validation"
  ELSE IF \E p \in retryableErrors : Contains(ToLower(text), p) THEN "network"
  ELSE "internal"

\* ErrorClassifier.IsRetryableError
IsRetryableError(o, text) == IsRetryable(ClassifyError(o, text))

\* fmt.Sprintf("%s-%s/%s/out/%s.<ext>", domain, scanID, task, randomID):
\* the name of a stored object, piece by piece
BlobName(domain, scanId, task, ext) ==
  <<domain, "-", scanId, "/", task, "/out/", "uuid", ".", ext>>

\* No object has been written
NoBlob == [name |-> <<>>, content |-> "none", status |-> "none"]

\* BlobStorageClient.StoreTaskResult: the JSON encoding of the TaskResult,
\* whose status processTask has set to completed
StoreTaskResult(t) ==
  [name |-> BlobName(t.domain, t.scanId, t.kind, "json"),
   content |-> "TaskResult", status |-> "completed"]

\* BlobStorageClient.StoreSubfinderTextResult: the subdomains joined by
\* newlines; the text carries no status
StoreSubfinderTextResult(t) ==
  [name |-> BlobName(t.domain, t.scanId, t.kind, "txt"),
   content |-> "subdomains", status |-> "none"]

\* finalizeTask: the object it writes for the task of call t, whose data
\* is a SubfinderResult when scanner is the subfinder scanner
StoredObject(t, scanner) ==
  IF t.kind = "subfinder"
    THEN IF scanner = "subfinder" THEN StoreSubfinderTextResult(t) ELSE NoBlob
    ELSE StoreTaskResult(t)

\* The errors scanner.Execute can return: an AppError of some kind, or an
\* error of another type with some text
ExecuteErrors ==
  {[kind |-> t, text |-> <<>>] : t \in ErrorTypes}
    \cup {[kind |-> "untyped", text |-> x] : x \in ErrorTexts}

\* ------------------------------------------------------------------------
\* DNSXScanner: input assembly, sharded result map
\* ------------------------------------------------------------------------

\* DNSXScanner.workerCount (50 by default), bounded in the model
workerCount == MaxWorkers

Workers == 1..workerCount

\* Host names after cleaning
Hosts == {"a.example.com", "ns2.example.com", "example.com"}

\* Entries of DNSXInput.Subdomains: host names, the empty string, a name
\* with a leading blank
SubdomainTokens == {"a.example.com", "ns2.example.com", "", " a.example.com"}

\* Contents of the hosts file in the blob store, line by line
HostsFiles ==
  {<<"ns2.example.com">>, <<" a.example.com ", "", "# hosts">>}

\* strings.TrimSpace
TrimSpace(str) ==
  CASE str \in {" a.example.com", " a.example.com "} -> "a.example.com"
    [] OTHER -> str

\* strings.HasPrefix(str, "#")
IsComment(str) == str = "# hosts"

\* utils.ReadSubdomainsFromString, on the lines of the content
RECURSIVE ReadSubdomainsFromString(_)
ReadSubdomainsFromString(lines) ==
  IF lines = <<>> THEN <<>>
  ELSE LET trimmed == TrimSpace(Head(lines)) IN
       IF trimmed = "" \/ IsComment(trimmed)
         THEN ReadSubdomainsFromString(Tail(lines))
         ELSE <<trimmed>> \o ReadSubdomainsFromString(Tail(lines))

\* ------------------------------------------------------------------------
\* SubfinderScanner: the subdomain list of an execution
\* ------------------------------------------------------------------------

\* Lines of the output of the subfinder tool
ToolLines == SubdomainTokens \cup {"example.com"}

\* Names in the JSON array the subdomain API answers with
ApiNames == {"a.example.com", " a.example.com", "example.com"}

\* SubfinderScanner.processSubfinderOutput, on the lines of the output
RECURSIVE processSubfinderOutput(_)
processSubfinderOutput(lines) ==
  IF lines = <<>> THEN <<>>
  ELSE LET lineStr == TrimSpace(Head(lines)) IN
       IF lineStr = "" THEN processSubfinderOutput(Tail(lines))
       ELSE <<lineStr>> \o processSubfinderOutput(Tail(lines))

\* removeDuplicates: the loop, with the names seen so far
RECURSIVE RemoveSeen(_, _)
RemoveSeen(subdomains, seen) ==
  IF subdomains = <<>> THEN <<>>
  ELSE IF Head(subdomains) \in seen THEN RemoveSeen(Tail(subdomains), seen)
  ELSE <<Head(subdomains)>> \o RemoveSeen(Tail(subdomains), seen \cup {Head(subdomains)})

\* Variant of removeDuplicates: nothing is removed
removeDuplicatesNone(subdomains) == subdomains

\* SubfinderScanner.removeDuplicates
removeDuplicates(subdomains) == RemoveSeen(subdomains, {})

\* SubfinderScanner.contains
contains(slice, item) == \E i \in 1..Len(slice) : slice[i] = item

\* Position of a name in the byte-wise order of sort.Strings
StringRank(n) ==
  CASE n = "" -> 0
    [] n = " a.example.com" -> 1
    [] n = "a.example.com" -> 2
    [] n = "example.com" -> 3
    [] n = "ns2.example.com" -> 4

\* sort.Strings, by insertion
RECURSIVE InsertSorted(_, _)
InsertSorted(x, sorted) ==
  IF sorted = <<>> THEN <<x>>
  ELSE IF StringRank(x) <= StringRank(Head(sorted)) THEN <<x>> \o sorted
  ELSE <<Head(sorted)>> \o InsertSorted(x, Tail(sorted))

RECURSIVE sortStrings(_)
sortStrings(names) ==
  IF names = <<>> THEN <<>> ELSE InsertSorted(Head(names), sortStrings(Tail(names)))

\* What an execution can collect in allSubdomains: the names of the API
\* (none without a key or after an error) followed by the names in the
\* output of the tool (none after an error)
SubfinderFindings ==
  {api \o processSubfinderOutput(tool) :
     api \in UNION {[1..n -> ApiNames] : n \in 0..MaxSubdomains},
     tool \in UNION {[1..n -> ToolLines] : n \in 0..MaxSubdomains}}

\* SubfinderScanner.Execute after the collection: removeDuplicates, sort,
\* and the domain itself added if it is missing
SubfinderSubdomains(domain, allSubdomains) ==
  LET uniqueSubdomains == sortStrings(removeDuplicates(allSubdomains)) IN
  IF contains(uniqueSubdomains, domain) THEN uniqueSubdomains
  ELSE sortStrings(Append(uniqueSubdomains, domain))

\* Validator.ValidateDomain on the names of this section
ValidateHost(d) ==
  IF d = "" THEN "domain is required"
  ELSE IF d \notin Hosts THEN "domain must start and end with alphanumeric character"
  ELSE "ok"

\* Validator.ValidateDNSXInput
ValidateDNSXInput(input) ==
  IF input.domain = "" /\ input.subdomains = <<>>
    THEN "either domain or subdomains must be provided"
  ELSE IF input.domain # "" /\ ValidateHost(input.domain) # "ok"
    THEN "invalid domain format for DNSX"
  ELSE IF \E i \in 1..Len(input.subdomains) :
            input.subdomains[i] # "" /\ ValidateHost(input.subdomains[i]) # "ok"
    THEN "invalid subdomain"
  ELSE "ok"

\* DNSXScanner.collectSubdomains, the hosts file already read
collectSubdomains(input, blobSubdomains) ==
  LET allSubdomains == input.subdomains \o blobSubdomains IN
  IF allSubdomains = <<>> THEN <<input.domain>> ELSE allSubdomains

\* DNSXScanner.calculateBufferSizes
min(a, b) == IF a < b THEN a ELSE b
workerBuffer(n) == min(n, workerCount * 4)
resultBuffer(n) == min(n, workerCount * 2)

\* hashString: 32-bit FNV-1a of the name
hashString(h) ==
  CASE h = "a.example.com" -> 14126923
    [] h = "ns2.example.com" -> 1915190043
    [] h = "example.com" -> 1125968678

ShardOf(h) == hashString(h) % shardCount

\* The sharded map is kept as the set of its entries: [shard, domain,
\* result] stands for shards[shard].records[domain] = result
NewShardedResultMap == {}

Lookup(m, h) == {e \in m : e.shard = ShardOf(h) /\ e.domain = h}

\* Variant of Set: the entry is keyed by its shard alone
SetByShard(m, h, info) ==
  {e \in m : e.shard # ShardOf(h)}
    \cup {[shard |-> ShardOf(h), domain |-> h, result |-> info]}

\* ShardedResultMap.Set
Set(m, h, info) ==
  (m \ Lookup(m, h)) \cup {[shard |-> ShardOf(h), domain |-> h, result |-> info]}

\* ShardedResultMap.GetAll: the shards are copied in order into one map,
\* kept as the set of its [domain, result] entries
GetAll(m) ==
  {[domain |-> e.domain, result |-> e.result] :
     e \in {x \in m : \A y \in m : y.domain = x.domain => y.shard <= x.shard}}

\* performOptimizedDNSLookup: the status of the ResolutionInfo
Statuses == {"resolved", "not_resolved", "error"}

IdleWorker == [pc |-> "recv", domain |-> "", result |-> "none"]

\* ------------------------------------------------------------------------
\* Initial state
\* ------------------------------------------------------------------------
Init ==
  /\ ctxCancelled = FALSE
  /\ received = 0
  /\ msg = "bad_json"
  /\ wpc = "poll"
  /\ attempt = 0
  /\ result = NoResult
  /\ hpc = [a \in Attempts |-> "none"]
  /\ rpc = "none"
  /\ opCtx = "none"
  /\ done = <<>>
  /\ renewalError = <<>>
  /\ renewals = 0
  /\ ticksTaken = 0
  /\ storeRes = [a \in Attempts |-> "none"]
  /\ failClass = "none"
  /\ waits = <<>>
  /\ invocations = 0
  /\ blobWrites = 0
  /\ callbacks = 0
  /\ finalOps = <<>>
  /\ leaked = FALSE
  /\ taskCall = [pc |-> "idle"]
  /\ finalizeCall = [pc |-> "idle"]
  /\ dnsxCall = [pc |-> "idle"]

\* ------------------------------------------------------------------------
\* The worker goroutine
\* ------------------------------------------------------------------------

\* ProcessMessages: the loop observes ctx.Done() and returns
Stop ==
  /\ wpc = "poll"
  /\ ctxCancelled
  /\ wpc' = "stopped"
  /\ UNCHANGED <<ctxCancelled, received, msg, attempt, result, hpc, rpc,
                 opCtx, done, renewalError, renewals, ticksTaken, storeRes,
                 failClass, waits, invocations, blobWrites, callbacks,
                 finalOps, leaked>>
  /\ UNCHANGED <<taskCall, dnsxCall, finalizeCall>>

\* processNextMessage: a message is received; ProcessMessage starts for it.
\* The goroutines of the previous receipt are not joined: a handler that
\* has not returned keeps running.
Receive ==
  /\ wpc = "poll"
  /\ ~ctxCancelled
  /\ received < MaxMessages
  /\ msg' \in Messages
  /\ received' = received + 1
  /\ leaked' = (leaked \/ \E a \in Attempts : hpc[a] \in Running)
  /\ wpc' = "attempt"
  /\ attempt' = 0
  /\ result' = NoResult
  /\ hpc' = [a \in Attempts |-> "none"]
  /\ rpc' = "none"
  /\ opCtx' = "none"
  /\ done' = <<>>
  /\ renewalError' = <<>>
  /\ renewals' = 0
  /\ ticksTaken' = 0
  /\ storeRes' = [a \in Attempts |-> "none"]
  /\ failClass' = "none"
  /\ waits' = <<>>
  /\ invocations' = 0
  /\ blobWrites' = 0
  /\ callbacks' = 0
  /\ finalOps' = <<>>
  /\ UNCHANGED ctxCancelled
  /\ UNCHANGED <<taskCall, dnsxCall, finalizeCall>>

\* ProcessMessage, top of the loop body up to the select of
\* processMessageWithRenewal: ctx check, JSON parse, fresh operationCtx and
\* channels, start of the handler goroutine and of the renewer goroutine.
\* The renewer and the channels of the previous attempt have no reader and
\* no effect on this state any more.
AttemptStart ==
  /\ wpc = "attempt"
  /\ IF ctxCancelled
       THEN /\ result' = CancelledResult(attempt)
            /\ wpc' = "handle_result"
            /\ UNCHANGED <<hpc, rpc, opCtx, done, renewalError, renewals,
                           ticksTaken, failClass, invocations>>
     ELSE IF msg = "bad_json"
       THEN LET r == [ParseFailureResult EXCEPT !.retryCount = attempt] IN
            /\ result' = r
            /\ failClass' = NextFailClass(failClass, r)
            /\ wpc' = IF EngineDecision(r, attempt) = "return"
                        THEN "handle_result" ELSE "backoff"
            /\ UNCHANGED <<hpc, rpc, opCtx, done, renewalError, renewals,
                           ticksTaken, invocations>>
     ELSE /\ opCtx' = "live"
          /\ done' = <<>>
          /\ renewalError' = <<>>
          /\ hpc' = [hpc EXCEPT ![attempt] = "run"]
          /\ rpc' = "init"
          /\ renewals' = 0
          /\ ticksTaken' = 0
          /\ invocations' = invocations + 1
          /\ wpc' = "supervise"
          /\ UNCHANGED <<result, failClass>>
  /\ UNCHANGED <<ctxCancelled, received, msg, attempt, storeRes, waits,
                 blobWrites, callbacks, finalOps, leaked>>
  /\ UNCHANGED <<taskCall, dnsxCall, finalizeCall>>

\* Variant of ReadyBranches: the select waits for the handler only
ReadyBranchesDoneOnly ==
  IF done # <<>> THEN {"done"} ELSE {}

\* The branches of the supervisor's select that are ready
ReadyBranches ==
  (IF opCtx = "done" THEN {"ctx"} ELSE {})
  \cup (IF renewalError # <<>> THEN {"renewal"} ELSE {})
  \cup (IF done # <<>> THEN {"done"} ELSE {})

\* processMessageWithRenewal: the select returns; cancelOperation runs
\* (explicitly on a renewal error, deferred otherwise); ProcessMessage sets
\* RetryCount and decides between returning and backing off.
Supervise ==
  /\ wpc = "supervise"
  /\ \E b \in ReadyBranches :
       LET r0 == CASE b = "ctx" -> OperationCtxResult
                   [] b = "renewal" -> RenewalFailureResult("lock_renewal")
                   [] OTHER -> Head(done)
           r == [r0 EXCEPT !.retryCount = attempt]
       IN /\ result' = r
          /\ failClass' = NextFailClass(failClass, r)
          /\ wpc' = IF EngineDecision(r, attempt) = "return"
                      THEN "handle_result" ELSE "backoff"
  /\ opCtx' = "done"
  /\ done' = <<>>
  /\ renewalError' = <<>>
  /\ UNCHANGED <<ctxCancelled, received, msg, attempt, hpc, rpc, renewals,
                 ticksTaken, storeRes, waits, invocations, blobWrites,
                 callbacks, finalOps, leaked>>
  /\ UNCHANGED <<taskCall, dnsxCall, finalizeCall>>

\* ProcessMessage: the backoff select, branch time.After(delay)
BackoffElapsed ==
  /\ wpc = "backoff"
  /\ waits' = Append(waits, BackoffDelay(attempt))
  /\ attempt' = attempt + 1
  /\ IF attempt + 1 <= maxRetries
       THEN /\ wpc' = "attempt"
            /\ result' = NoResult
       ELSE /\ wpc' = "handle_result"
            /\ result' = Res(FALSE, FALSE, maxRetries, "max_retries")
  /\ UNCHANGED <<ctxCancelled, received, msg, hpc, rpc, opCtx, done,
                 renewalError, renewals, ticksTaken, storeRes, failClass,
                 invocations, blobWrites, callbacks, finalOps, leaked>>
  /\ UNCHANGED <<taskCall, dnsxCall, finalizeCall>>

\* ProcessMessage: the backoff select, branch ctx.Done()
BackoffCancelled ==
  /\ wpc = "backoff"
  /\ ctxCancelled
  /\ result' = CancelledResult(attempt)
  /\ wpc' = "handle_result"
  /\ UNCHANGED <<ctxCancelled, received, msg, attempt, hpc, rpc, opCtx,
                 done, renewalError, renewals, ticksTaken, storeRes,
                 failClass, waits, invocations, blobWrites, callbacks,
                 finalOps, leaked>>
  /\ UNCHANGED <<taskCall, dnsxCall, finalizeCall>>

\* processNextMessage: handleMessageResult(result), then back to the loop
HandleMessageResult ==
  /\ wpc = "handle_result"
  /\ finalOps' = finalOps \o handleMessageResult(result)
  /\ wpc' = "poll"
  /\ UNCHANGED <<ctxCancelled, received, msg, attempt, result, hpc, rpc,
                 opCtx, done, renewalError, renewals, ticksTaken, storeRes,
                 failClass, waits, invocations, blobWrites, callbacks, leaked>>
  /\ UNCHANGED <<taskCall, dnsxCall, finalizeCall>>

\* ------------------------------------------------------------------------
\* The handler goroutine of attempt a: TaskHandler.HandleTask(operationCtx)
\* ------------------------------------------------------------------------

\* The supervisor of attempt a is still in its select
Supervised(a) == wpc = "supervise" /\ attempt = a

\* done <- result: the channel has capacity 1 and one sender; once the
\* supervisor has returned nothing reads it any more
SendDone(a, r) == IF Supervised(a) THEN Append(done, r) ELSE done

\* Variant of HandlerRun: after a successful scan the handler goes to the
\* completion notification without the blob write
HandlerRunSkipStore(a) ==
  /\ hpc[a] = "run"
  /\ IF msg = "invalid"
       THEN /\ hpc' = [hpc EXCEPT ![a] = "returned"]
            /\ done' = SendDone(a, createFailureResult("validation", FALSE))
       ELSE \/ /\ hpc' = [hpc EXCEPT ![a] = "notify"]
               /\ UNCHANGED done
            \/ \E d \in {SendDone(a, createFailureResult(o, IsRetryable(o))) :
                            o \in ErrorTypes} :
                 /\ hpc' = [hpc EXCEPT ![a] = "returned"]
                 /\ done' = d
  /\ UNCHANGED <<ctxCancelled, received, msg, wpc, attempt, result, rpc,
                 opCtx, renewalError, renewals, ticksTaken, storeRes,
                 failClass, waits, invocations, blobWrites, callbacks,
                 finalOps, leaked>>
  /\ UNCHANGED <<taskCall, dnsxCall, finalizeCall>>

\* HandleTask: validateTaskMessage, then processTask: scanner.Execute
\* returns a result or an error of some kind, which is classified by
\* ErrorClassifier.IsRetryableError
HandlerRun(a) ==
  /\ hpc[a] = "run"
  /\ IF msg = "invalid"
       THEN /\ hpc' = [hpc EXCEPT ![a] = "returned"]
            /\ done' = SendDone(a, createFailureResult("validation", FALSE))
       ELSE \/ /\ hpc' = [hpc EXCEPT ![a] = "store"]
               /\ UNCHANGED done
            \/ \E d \in {SendDone(a, createFailureResult(o, IsRetryable(o))) :
                            o \in ErrorTypes} :
                 /\ hpc' = [hpc EXCEPT ![a] = "returned"]
                 /\ done' = d
  /\ UNCHANGED <<ctxCancelled, received, msg, wpc, attempt, result, rpc,
                 opCtx, renewalError, renewals, ticksTaken, storeRes,
                 failClass, waits, invocations, blobWrites, callbacks,
                 finalOps, leaked>>
  /\ UNCHANGED <<taskCall, dnsxCall, finalizeCall>>

\* Variant of HandlerStore: no return after the storage error, the handler
\* goes on to the completion notification
HandlerStoreNoReturn(a) ==
  /\ hpc[a] = "store"
  /\ \E ok \in BOOLEAN :
       /\ storeRes' = [storeRes EXCEPT ![a] = IF ok THEN "ok" ELSE "fail"]
       /\ blobWrites' = IF ok THEN Inc(blobWrites) ELSE blobWrites
       /\ hpc' = [hpc EXCEPT ![a] = "notify"]
       /\ UNCHANGED done
  /\ UNCHANGED <<ctxCancelled, received, msg, wpc, attempt, result, rpc,
                 opCtx, renewalError, renewals, ticksTaken, failClass,
                 waits, invocations, callbacks, finalOps, leaked>>
  /\ UNCHANGED <<taskCall, dnsxCall, finalizeCall>>

\* finalizeTask: the blob write; a storage error is returned as retryable
HandlerStore(a) ==
  /\ hpc[a] = "store"
  /\ \E ok \in BOOLEAN :
       IF ok
         THEN /\ storeRes' = [storeRes EXCEPT ![a] = "ok"]
              /\ blobWrites' = Inc(blobWrites)
              /\ hpc' = [hpc EXCEPT ![a] = "notify"]
              /\ UNCHANGED done
         ELSE /\ storeRes' = [storeRes EXCEPT ![a] = "fail"]
              /\ hpc' = [hpc EXCEPT ![a] = "returned"]
              /\ done' = SendDone(a, createFailureResult("storage", TRUE))
              /\ UNCHANGED blobWrites
  /\ UNCHANGED <<ctxCancelled, received, msg, wpc, attempt, result, rpc,
                 opCtx, renewalError, renewals, ticksTaken, failClass,
                 waits, invocations, callbacks, finalOps, leaked>>
  /\ UNCHANGED <<taskCall, dnsxCall, finalizeCall>>

\* finalizeTask: the completion notification, whose error is only logged,
\* then Success is returned.  With no notifier configured, or when the POST
\* keeps failing, no event is delivered.
HandlerNotify(a) ==
  /\ hpc[a] = "notify"
  /\ \E c \in {IF NotifyCompletionWithRetry(
                       failures, ~Supervised(a) \/ opCtx = "done").delivered = 1
                    THEN Inc(callbacks) ELSE callbacks :
                  failures \in 0..(maxRetries + 1)} :
       callbacks' = c
  /\ hpc' = [hpc EXCEPT ![a] = "returned"]
  /\ done' = SendDone(a, SuccessResult)
  /\ UNCHANGED <<ctxCancelled, received, msg, wpc, attempt, result, rpc,
                 opCtx, renewalError, renewals, ticksTaken, storeRes,
                 failClass, waits, invocations, blobWrites, finalOps, leaked>>
  /\ UNCHANGED <<taskCall, dnsxCall, finalizeCall>>

\* The last handler of the earlier receipts returns
LeakedHandlerReturns ==
  /\ leaked
  /\ leaked' = FALSE
  /\ UNCHANGED <<ctxCancelled, received, msg, wpc, attempt, result, hpc,
                 rpc, opCtx, done, renewalError, renewals, ticksTaken,
                 storeRes, failClass, waits, invocations, blobWrites,
                 callbacks, finalOps>>
  /\ UNCHANGED <<taskCall, dnsxCall, finalizeCall>>

\* ------------------------------------------------------------------------
\* The renewer goroutine of the latest attempt
\* ------------------------------------------------------------------------

\* renewalError <- err
SendRenewalError == IF wpc = "supervise" THEN Append(renewalError, "err") ELSE renewalError

\* Variant of RenewInitial: no renewal before the ticker loop
RenewInitialSkipped ==
  /\ rpc = "init"
  /\ rpc' = "loop"
  /\ UNCHANGED <<ctxCancelled, received, msg, wpc, attempt, result, hpc,
                 opCtx, done, renewalError, renewals, ticksTaken, storeRes,
                 failClass, waits, invocations, blobWrites, callbacks,
                 finalOps, leaked>>
  /\ UNCHANGED <<taskCall, dnsxCall, finalizeCall>>

\* Variant of RenewInitial: the first renewal waits for the first tick
RenewInitialAfterTick ==
  /\ rpc = "init"
  /\ ticksTaken < MaxTicks
  /\ ticksTaken' = ticksTaken + 1
  /\ renewals' = renewals + 1
  /\ \E ok \in BOOLEAN :
       IF ok
         THEN /\ rpc' = "loop"
              /\ UNCHANGED renewalError
         ELSE /\ rpc' = "exited"
              /\ renewalError' = SendRenewalError
  /\ UNCHANGED <<ctxCancelled, received, msg, wpc, attempt, result, hpc,
                 opCtx, done, storeRes, failClass, waits, invocations,
                 blobWrites, callbacks, finalOps, leaked>>
  /\ UNCHANGED <<taskCall, dnsxCall, finalizeCall>>

\* "Renew lock immediately": the first RenewMessageLock, before the loop
RenewInitial ==
  /\ rpc = "init"
  /\ renewals' = renewals + 1
  /\ \E ok \in BOOLEAN :
       IF ok
         THEN /\ rpc' = "loop"
              /\ UNCHANGED renewalError
         ELSE /\ rpc' = "exited"
              /\ renewalError' = SendRenewalError
  /\ UNCHANGED <<ctxCancelled, received, msg, wpc, attempt, result, hpc,
                 opCtx, done, ticksTaken, storeRes, failClass, waits,
                 invocations, blobWrites, callbacks, finalOps, leaked>>
  /\ UNCHANGED <<taskCall, dnsxCall, finalizeCall>>

\* The ticker loop, branch ticker.C: RenewMessageLock again
RenewOnTick ==
  /\ rpc = "loop"
  /\ ticksTaken < MaxTicks
  /\ ticksTaken' = ticksTaken + 1
  /\ renewals' = renewals + 1
  /\ \E ok \in BOOLEAN :
       IF ok
         THEN UNCHANGED <<rpc, renewalError>>
         ELSE /\ rpc' = "exited"
              /\ renewalError' = SendRenewalError
  /\ UNCHANGED <<ctxCancelled, received, msg, wpc, attempt, result, hpc,
                 opCtx, done, storeRes, failClass, waits, invocations,
                 blobWrites, callbacks, finalOps, leaked>>
  /\ UNCHANGED <<taskCall, dnsxCall, finalizeCall>>

\* The ticker loop, branch operationCtx.Done()
RenewerStops ==
  /\ rpc = "loop"
  /\ opCtx = "done"
  /\ rpc' = "exited"
  /\ UNCHANGED <<ctxCancelled, received, msg, wpc, attempt, result, hpc,
                 opCtx, done, renewalError, renewals, ticksTaken, storeRes,
                 failClass, waits, invocations, blobWrites, callbacks,
                 finalOps, leaked>>
  /\ UNCHANGED <<taskCall, dnsxCall, finalizeCall>>

\* ------------------------------------------------------------------------
\* The environment
\* ------------------------------------------------------------------------

\* handleGracefulShutdown: app.cancel() cancels ctx and every context
\* derived from it
Shutdown ==
  /\ ~ctxCancelled
  /\ ctxCancelled' = TRUE
  /\ opCtx' = IF opCtx = "live" THEN "done" ELSE opCtx
  /\ UNCHANGED <<received, msg, wpc, attempt, result, hpc, rpc, done,
                 renewalError, renewals, ticksTaken, storeRes, failClass,
                 waits, invocations, blobWrites, callbacks, finalOps, leaked>>
  /\ UNCHANGED <<taskCall, dnsxCall, finalizeCall>>

\* The deadline of handlerCtx (scannerTimeout) or of operationCtx
\* (maxLockRenewalTime) passes
Timeout ==
  /\ opCtx = "live"
  /\ opCtx' = "done"
  /\ UNCHANGED <<ctxCancelled, received, msg, wpc, attempt, result, hpc,
                 rpc, done, renewalError, renewals, ticksTaken, storeRes,
                 failClass, waits, invocations, blobWrites, callbacks,
                 finalOps, leaked>>
  /\ UNCHANGED <<taskCall, dnsxCall, finalizeCall>>

\* ------------------------------------------------------------------------
\* Specification
\* ------------------------------------------------------------------------
Next ==
  \/ Stop
  \/ Receive
  \/ AttemptStart
  \/ Supervise
  \/ BackoffElapsed
  \/ BackoffCancelled
  \/ HandleMessageResult
  \/ LeakedHandlerReturns
  \/ RenewInitial
  \/ RenewOnTick
  \/ RenewerStops
  \/ Shutdown
  \/ Timeout
  \/ \E a \in Attempts : HandlerRun(a)
  \/ \E a \in Attempts : HandlerStore(a)
  \/ \E a \in Attempts : HandlerNotify(a)

Spec == Init /\ [][Next]_vars

\* ------------------------------------------------------------------------
\* One receipt, with the scheduling the runtime provides
\* ------------------------------------------------------------------------

\* processNextMessage for the first message the worker receives
ReceiveFirst == received = 0 /\ Receive

FirstReceiptNext ==
  \/ Stop
  \/ ReceiveFirst
  \/ AttemptStart
  \/ Supervise
  \/ BackoffElapsed
  \/ BackoffCancelled
  \/ HandleMessageResult
  \/ RenewInitial
  \/ RenewOnTick
  \/ RenewerStops
  \/ Shutdown
  \/ Timeout
  \/ \E a \in Attempts : HandlerRun(a)
  \/ \E a \in Attempts : HandlerStore(a)
  \/ \E a \in Attempts : HandlerNotify(a)

\* The worker goroutine runs whenever it can; the timers of
\* context.WithTimeout and of time.After fire.  Nothing is assumed about
\* the handler and the renewer, which wait for a scanner and for the broker
LifecycleFairness ==
  /\ WF_vars(AttemptStart)
  /\ WF_vars(Supervise)
  /\ WF_vars(BackoffElapsed \/ BackoffCancelled)
  /\ WF_vars(HandleMessageResult)
  /\ WF_vars(Timeout)

FirstReceiptLiveSpec == Init /\ [][FirstReceiptNext]_vars /\ LifecycleFairness

\* ------------------------------------------------------------------------
\* TaskHandler.HandleTask, one call taken on its own
\* ------------------------------------------------------------------------

\* The state of a call at its entry through entry point e with message m
NewTaskCall(e, m) ==
  [pc |-> "entered",       \* position inside HandleTask
   task |-> Call(e, m),    \* the TaskMessage of the call and its entry point
   scanner |-> "none",     \* the scanner processTask obtained from the factory
   exec |-> "none",        \* outcome of scanner.Execute
   execText |-> <<>>,      \* text of the error of scanner.Execute, if not an AppError
   found |-> <<>>,         \* subfinder: the names collected in allSubdomains
   data |-> <<>>,          \* subfinder: SubfinderResult.Subdomains
   store |-> "none",       \* outcome of the blob write of finalizeTask
   blob |-> NoBlob,        \* the object finalizeTask has written
   notify |-> "none",      \* outcome of the completion notification
   attempts |-> NoAttempts,  \* the run of NotifyCompletionWithRetry
   stepFailed |-> FALSE,   \* a Discord step notification returned an error
   result |-> NoResult]    \* the MessageProcessingResult returned

\* HandleTask up to the call of processTask: step notification, then
\* validateTaskMessage; a failure is returned at once
HandleTask ==
  /\ taskCall.pc = "idle"
  /\ \E m \in TaskMessages, d \in BOOLEAN :
       LET c == [NewTaskCall("HandleTask", m) EXCEPT !.stepFailed = d] IN
       taskCall' = IF validateTaskMessage(m).success
                     THEN [c EXCEPT !.pc = "process"]
                     ELSE [c EXCEPT !.pc = "returned",
                                    !.result = validateTaskMessage(m)]
  /\ UNCHANGED <<lifecycleVars, dnsxCall, finalizeCall>>

\* processTask entered with a message that did not go through
\* validateTaskMessage
ProcessTaskAlone ==
  /\ taskCall.pc = "idle"
  /\ \E m \in TaskMessages :
       taskCall' = [NewTaskCall("processTask", m) EXCEPT !.pc = "process"]
  /\ UNCHANGED <<lifecycleVars, dnsxCall, finalizeCall>>

\* processTask up to scanner.Execute: GetScanner with its fallback, the
\* typed input, ValidateInput
ProcessTask ==
  /\ taskCall.pc = "process"
  /\ \E d \in BOOLEAN :
       LET c == [taskCall EXCEPT !.scanner = LookupScanner(taskCall.task.kind)]
           v == ValidateInput(ScannerInput(taskCall.task))
       IN taskCall' = IF v = "ok"
                        THEN [c EXCEPT !.pc = "execute"]
                        ELSE [c EXCEPT !.pc = "returned",
                                       !.result = createFailureResult(v, FALSE),
                                       !.stepFailed = (@ \/ d)]
  /\ UNCHANGED <<lifecycleVars, dnsxCall, finalizeCall>>

\* processTask: scanner.Execute and the classification of its error
ScannerExecute ==
  /\ taskCall.pc = "execute"
  /\ \E e \in {[kind |-> "ok", text |-> <<>>]} \cup ExecuteErrors, d \in BOOLEAN :
     \E all \in IF e.kind = "ok" /\ taskCall.scanner = "subfinder"
                   THEN SubfinderFindings ELSE {<<>>} :
       LET c == [taskCall EXCEPT
                   !.exec = e.kind, !.execText = e.text,
                   !.stepFailed = (@ \/ d),
                   !.found = all,
                   !.data = IF e.kind = "ok" /\ taskCall.scanner = "subfinder"
                              THEN SubfinderSubdomains(taskCall.task.domain, all)
                              ELSE <<>>] IN
       taskCall' = IF e.kind # "ok"
                     THEN [c EXCEPT !.pc = "returned",
                                    !.result = createFailureResult(
                                                 e.kind, IsRetryableError(e.kind, e.text))]
                   ELSE IF taskCall.task.entry = "HandleTask"
                     THEN [c EXCEPT !.pc = "store"]
                   ELSE [c EXCEPT !.pc = "returned", !.result = SuccessResult]
  /\ UNCHANGED <<lifecycleVars, dnsxCall, finalizeCall>>

\* Variant of FinalizeStore: no return after the storage error, the call
\* goes on to the completion notification
FinalizeStoreNoReturn ==
  /\ taskCall.pc = "store"
  /\ \E o \in Outcomes, d \in BOOLEAN :
       LET c == [taskCall EXCEPT !.store = o] IN
       taskCall' = IF o # "ok"
                     THEN [c EXCEPT !.pc = "notify"]
                     ELSE [c EXCEPT !.pc = "notify", !.stepFailed = (@ \/ d),
                                    !.blob = StoredObject(taskCall.task,
                                                          taskCall.scanner)]
  /\ UNCHANGED <<lifecycleVars, dnsxCall, finalizeCall>>

\* Variant of FinalizeStore: the storage error is classified like a
\* scanner error
FinalizeStoreClassified ==
  /\ taskCall.pc = "store"
  /\ \E o \in Outcomes, d \in BOOLEAN :
       LET c == [taskCall EXCEPT !.store = o] IN
       taskCall' = IF o # "ok"
                     THEN [c EXCEPT !.pc = "returned",
                                    !.result = createFailureResult(o, IsRetryable(o))]
                     ELSE [c EXCEPT !.pc = "notify", !.stepFailed = (@ \/ d),
                                    !.blob = StoredObject(taskCall.task,
                                                          taskCall.scanner)]
  /\ UNCHANGED <<lifecycleVars, dnsxCall, finalizeCall>>

\* finalizeTask: the blob write; every storage error is returned retryable
FinalizeStore ==
  /\ taskCall.pc = "store"
  /\ \E o \in Outcomes, d \in BOOLEAN :
       LET c == [taskCall EXCEPT !.store = o] IN
       taskCall' = IF o # "ok"
                     THEN [c EXCEPT !.pc = "returned",
                                    !.result = createFailureResult(o, TRUE)]
                     ELSE [c EXCEPT !.pc = "notify", !.stepFailed = (@ \/ d),
                                    !.blob = StoredObject(taskCall.task,
                                                          taskCall.scanner)]
  /\ UNCHANGED <<lifecycleVars, dnsxCall, finalizeCall>>

\* sendCompletionNotification: outcome for a notifier that is configured
\* or not and whose POST fails `failures` times in a row
CompletionOutcome(configured, instanceId, failures) ==
  IF ~configured THEN "skipped"
  ELSE IF instanceId = "" THEN "failed"
  ELSE IF NotifyCompletionWithRetry(failures, FALSE).delivered = 1 THEN "sent"
  ELSE "failed"

\* Variant of FinalizeNotify: a failed notification fails the task
FinalizeNotifyStrict ==
  /\ taskCall.pc = "notify"
  /\ \E configured \in BOOLEAN, failures \in 0..(maxRetries + 1), d \in BOOLEAN :
       LET o == CompletionOutcome(configured, taskCall.task.instanceId, failures) IN
       taskCall' = [taskCall EXCEPT
                      !.notify = o,
                      !.attempts = CompletionAttempts(configured,
                                                      taskCall.task.instanceId,
                                                      failures),
                      !.stepFailed = (@ \/ (o = "sent" /\ d)),
                      !.result = IF o = "failed"
                                   THEN createFailureResult("network", TRUE)
                                   ELSE SuccessResult,
                      !.pc = "returned"]
  /\ UNCHANGED <<lifecycleVars, dnsxCall, finalizeCall>>

\* finalizeTask after the blob write: the completion notification, whose
\* error is only logged, then Success
FinalizeNotify ==
  /\ taskCall.pc = "notify"
  /\ \E configured \in BOOLEAN, failures \in 0..(maxRetries + 1), d \in BOOLEAN :
       LET o == CompletionOutcome(configured, taskCall.task.instanceId, failures) IN
       taskCall' = [taskCall EXCEPT
                      !.notify = o,
                      !.attempts = CompletionAttempts(configured,
                                                      taskCall.task.instanceId,
                                                      failures),
                      !.stepFailed = (@ \/ (o = "sent" /\ d)),
                      !.result = SuccessResult,
                      !.pc = "returned"]
  /\ UNCHANGED <<lifecycleVars, dnsxCall, finalizeCall>>

TaskNext ==
  \/ HandleTask
  \/ ProcessTaskAlone
  \/ ProcessTask
  \/ ScannerExecute
  \/ FinalizeStore
  \/ FinalizeNotify

TaskSpec == Init /\ [][TaskNext]_vars

\* ------------------------------------------------------------------------
\* ServiceBusClient.handleMessageResult, one call taken on its own
\* ------------------------------------------------------------------------

\* Results a call can be given: the success result, and a failure of any
\* kind, retryable or not, with any attempt count of ProcessMessage
FinalResults ==
  {SuccessResult}
    \cup {Res(FALSE, rt, c, e) : rt \in BOOLEAN, c \in Attempts,
                                e \in ErrorTypes \cup {"parse", "context"}}

\* handleMessageResult on a message that carries the application property
\* RetryCount = carried: the broker operations invoked and their options
HandleMessageResultAlone ==
  /\ finalizeCall.pc = "idle"
  /\ \E r \in FinalResults, carried \in 0..MaxCount :
       finalizeCall' =
         [pc |-> "returned",
          result |-> r,
          carried |-> carried,
          ops |-> handleMessageResult(r),
          options |-> IF r.success THEN NilOptions
                      ELSE IF shouldRetryMessage(r) THEN AbandonOptions(carried, r)
                      ELSE DeadLetterOptions(r)]
  /\ UNCHANGED <<lifecycleVars, taskCall, dnsxCall>>

FinalizeNext == HandleMessageResultAlone

FinalizeSpec == Init /\ [][FinalizeNext]_vars

\* ------------------------------------------------------------------------
\* DNSXScanner.Execute, one call taken on its own
\* ------------------------------------------------------------------------

DNSXInputs ==
  [domain : {"", "example.com"},
   subdomains : UNION {[1..n -> SubdomainTokens] : n \in 0..MaxSubdomains},
   hostsFile : {<<>>} \cup HostsFiles]

\* The state of a call when processDNSResolutionOptimized has made the
\* channels and the sharded map and started its goroutines
NewDNSXCall(cancelled, all) ==
  [pc |-> "running",            \* position of the driver
   ctx |-> cancelled,           \* the context passed to Execute is done
   subdomains |-> all,          \* subdomainsToProcess
   feedIdx |-> 1,               \* feeder: index of the next subdomain to send
   workerChan |-> <<>>,         \* s.workerChan
   workerChanClosed |-> FALSE,
   wst |-> [w \in Workers |-> IdleWorker],  \* per worker: position, result held
   resultChan |-> <<>>,         \* s.resultChan
   resultChanClosed |-> FALSE,
   collectorDone |-> FALSE,     \* the collector goroutine has returned (wgResults)
   shards |-> NewShardedResultMap,  \* shardedResults, as the set of its entries
   records |-> {},              \* the mapping Execute returns
   published |-> {},            \* results sent to resultChan so far
   overwritten |-> FALSE,       \* a Set has replaced an entry that was there
   sentOnClosed |-> FALSE,      \* a worker has sent on the closed resultChan
   dropped |-> FALSE]           \* a worker has taken a host and returned on ctx.Done

\* Execute up to the start of the goroutines: ValidateInput, the ctx check,
\* collectSubdomains (the read of the hosts file may fail), then
\* processDNSResolutionOptimized makes the channels and the sharded map and
\* starts the collector, the workers and the feeder
DNSXExecute ==
  /\ dnsxCall.pc = "idle"
  /\ \E input \in DNSXInputs, cancelled \in BOOLEAN, readOk \in BOOLEAN :
       LET all == collectSubdomains(input, ReadSubdomainsFromString(input.hostsFile)) IN
       dnsxCall' = IF \/ ValidateDNSXInput(input) # "ok"
                      \/ cancelled
                      \/ (input.hostsFile # <<>> /\ ~readOk)
                      \/ Len(all) = 0
                     THEN [NewDNSXCall(cancelled, <<>>) EXCEPT !.pc = "failed"]
                     ELSE NewDNSXCall(cancelled, all)
  /\ UNCHANGED <<lifecycleVars, taskCall, finalizeCall>>

\* Positions of the driver at which the goroutines it started exist
Started == {"running", "closed", "returned"}

\* Variant of Feed: no close(s.workerChan) after the last subdomain
FeedWithoutClose ==
  /\ dnsxCall.pc \in Started
  /\ ~dnsxCall.workerChanClosed
  /\ dnsxCall.feedIdx <= Len(dnsxCall.subdomains)
  /\ Len(dnsxCall.workerChan) < workerBuffer(Len(dnsxCall.subdomains))
  /\ dnsxCall' = [dnsxCall EXCEPT
                    !.workerChan = Append(@, dnsxCall.subdomains[dnsxCall.feedIdx]),
                    !.feedIdx = @ + 1]
  /\ UNCHANGED <<lifecycleVars, taskCall, finalizeCall>>

\* The feeder: s.workerChan <- subdomain; after the last one the deferred
\* close(s.workerChan) runs
Feed ==
  /\ dnsxCall.pc \in Started
  /\ ~dnsxCall.workerChanClosed
  /\ dnsxCall.feedIdx <= Len(dnsxCall.subdomains)
  /\ Len(dnsxCall.workerChan) < workerBuffer(Len(dnsxCall.subdomains))
  /\ dnsxCall' = [dnsxCall EXCEPT
                    !.workerChan = Append(@, dnsxCall.subdomains[dnsxCall.feedIdx]),
                    !.feedIdx = @ + 1,
                    !.workerChanClosed = (dnsxCall.feedIdx = Len(dnsxCall.subdomains))]
  /\ UNCHANGED <<lifecycleVars, taskCall, finalizeCall>>

\* The feeder: case <-ctx.Done(): return, and the deferred close
FeederCancelled ==
  /\ dnsxCall.pc \in Started
  /\ ~dnsxCall.workerChanClosed
  /\ dnsxCall.ctx
  /\ dnsxCall' = [dnsxCall EXCEPT !.workerChanClosed = TRUE]
  /\ UNCHANGED <<lifecycleVars, taskCall, finalizeCall>>

\* Variant of WorkerTake: no check of ctx.Done() after the receive
WorkerTakeUnchecked(w) ==
  /\ dnsxCall.pc \in Started
  /\ dnsxCall.wst[w].pc = "recv"
  /\ dnsxCall.workerChan # <<>>
  /\ LET cleanSubdomain == TrimSpace(Head(dnsxCall.workerChan))
         c == [dnsxCall EXCEPT !.workerChan = Tail(@)]
     IN dnsxCall' = IF cleanSubdomain = ""
                      THEN c
                      ELSE [c EXCEPT !.wst[w] = [pc |-> "lookup",
                                                 domain |-> cleanSubdomain,
                                                 result |-> "none"]]
  /\ UNCHANGED <<lifecycleVars, taskCall, finalizeCall>>

\* worker: a subdomain is received from s.workerChan, then the ctx check,
\* then TrimSpace and the skip of an empty name
WorkerTake(w) ==
  /\ dnsxCall.pc \in Started
  /\ dnsxCall.wst[w].pc = "recv"
  /\ dnsxCall.workerChan # <<>>
  /\ LET cleanSubdomain == TrimSpace(Head(dnsxCall.workerChan))
         c == [dnsxCall EXCEPT !.workerChan = Tail(@)]
     IN dnsxCall' = IF dnsxCall.ctx
                      THEN [c EXCEPT !.wst[w].pc = "exited", !.dropped = TRUE]
                    ELSE IF cleanSubdomain = ""
                      THEN c
                    ELSE [c EXCEPT !.wst[w] = [pc |-> "lookup",
                                               domain |-> cleanSubdomain,
                                               result |-> "none"]]
  /\ UNCHANGED <<lifecycleVars, taskCall, finalizeCall>>

\* worker: limiter.Take and performOptimizedDNSLookup
WorkerLookup(w) ==
  /\ dnsxCall.pc \in Started
  /\ dnsxCall.wst[w].pc = "lookup"
  /\ \E st \in Statuses :
       dnsxCall' = [dnsxCall EXCEPT !.wst[w].pc = "send", !.wst[w].result = st]
  /\ UNCHANGED <<lifecycleVars, taskCall, finalizeCall>>

\* worker: s.resultChan <- {cleanSubdomain, resolutionInfo}; a send on a
\* closed channel panics
WorkerSend(w) ==
  /\ dnsxCall.pc \in Started
  /\ dnsxCall.wst[w].pc = "send"
  /\ LET r == [domain |-> dnsxCall.wst[w].domain, result |-> dnsxCall.wst[w].result] IN
       IF dnsxCall.resultChanClosed
         THEN dnsxCall' = [dnsxCall EXCEPT !.sentOnClosed = TRUE,
                                          !.wst[w] = [IdleWorker EXCEPT !.pc = "exited"]]
         ELSE /\ Len(dnsxCall.resultChan) < resultBuffer(Len(dnsxCall.subdomains))
              /\ dnsxCall' = [dnsxCall EXCEPT !.resultChan = Append(@, r),
                                              !.published = @ \cup {r},
                                              !.wst[w] = IdleWorker]
  /\ UNCHANGED <<lifecycleVars, taskCall, finalizeCall>>

\* worker: case <-ctx.Done() of the send: return
WorkerCancelled(w) ==
  /\ dnsxCall.pc \in Started
  /\ dnsxCall.wst[w].pc = "send"
  /\ dnsxCall.ctx
  /\ dnsxCall' = [dnsxCall EXCEPT !.wst[w] = [IdleWorker EXCEPT !.pc = "exited"]]
  /\ UNCHANGED <<lifecycleVars, taskCall, finalizeCall>>

\* worker: the range over s.workerChan ends, wgWorkers.Done
WorkerExit(w) ==
  /\ dnsxCall.pc \in Started
  /\ dnsxCall.wst[w].pc = "recv"
  /\ dnsxCall.workerChan = <<>>
  /\ dnsxCall.workerChanClosed
  /\ dnsxCall' = [dnsxCall EXCEPT !.wst[w].pc = "exited"]
  /\ UNCHANGED <<lifecycleVars, taskCall, finalizeCall>>

\* The collector: a result is received and stored with Set
Collect ==
  /\ dnsxCall.pc \in Started
  /\ dnsxCall.resultChan # <<>>
  /\ LET r == Head(dnsxCall.resultChan) IN
       dnsxCall' = [dnsxCall EXCEPT
                      !.shards = Set(@, r.domain, r.result),
                      !.overwritten = (@ \/ Lookup(dnsxCall.shards, r.domain) # {}),
                      !.resultChan = Tail(@)]
  /\ UNCHANGED <<lifecycleVars, taskCall, finalizeCall>>

\* The collector: the range over s.resultChan ends, wgResults.Done
CollectorExit ==
  /\ dnsxCall.pc \in Started
  /\ dnsxCall.resultChan = <<>>
  /\ dnsxCall.resultChanClosed
  /\ ~dnsxCall.collectorDone
  /\ dnsxCall' = [dnsxCall EXCEPT !.collectorDone = TRUE]
  /\ UNCHANGED <<lifecycleVars, taskCall, finalizeCall>>

\* Variant of CloseResults: close(s.resultChan) without wgWorkers.Wait()
CloseResultsWithoutWait ==
  /\ dnsxCall.pc = "running"
  /\ dnsxCall' = [dnsxCall EXCEPT !.resultChanClosed = TRUE, !.pc = "closed"]
  /\ UNCHANGED <<lifecycleVars, taskCall, finalizeCall>>

\* The driver: wgWorkers.Wait() returns, close(s.resultChan)
CloseResults ==
  /\ dnsxCall.pc = "running"
  /\ \A w \in Workers : dnsxCall.wst[w].pc = "exited"
  /\ dnsxCall' = [dnsxCall EXCEPT !.resultChanClosed = TRUE, !.pc = "closed"]
  /\ UNCHANGED <<lifecycleVars, taskCall, finalizeCall>>

\* The driver: wgResults.Wait() returns, shardedResults.GetAll(); Execute
\* returns the DNSXResult with a nil error
Drain ==
  /\ dnsxCall.pc = "closed"
  /\ dnsxCall.collectorDone
  /\ dnsxCall' = [dnsxCall EXCEPT !.records = GetAll(dnsxCall.shards),
                                  !.pc = "returned"]
  /\ UNCHANGED <<lifecycleVars, taskCall, finalizeCall>>

\* The context passed to Execute is cancelled or its deadline passes
DNSXCancel ==
  /\ dnsxCall.pc \in {"running", "closed"}
  /\ ~dnsxCall.ctx
  /\ dnsxCall' = [dnsxCall EXCEPT !.ctx = TRUE]
  /\ UNCHANGED <<lifecycleVars, taskCall, finalizeCall>>

DNSXNext ==
  \/ DNSXExecute
  \/ Feed
  \/ FeederCancelled
  \/ Collect
  \/ CollectorExit
  \/ CloseResults
  \/ Drain
  \/ DNSXCancel
  \/ \E w \in Workers : WorkerTake(w)
  \/ \E w \in Workers : WorkerLookup(w)
  \/ \E w \in Workers : WorkerSend(w)
  \/ \E w \in Workers : WorkerCancelled(w)
  \/ \E w \in Workers : WorkerExit(w)

DNSXSpec == Init /\ [][DNSXNext]_vars

\* The goroutines of the pool are scheduled: the feeder, each worker, the
\* collector and the driver take the step they are ready for; the
\* cancellation of the context is left to the caller
DNSXFairness ==
  /\ WF_vars(Feed \/ FeederCancelled)
  /\ \A w \in Workers :
       WF_vars(WorkerTake(w) \/ WorkerLookup(w) \/ WorkerSend(w)
                 \/ WorkerCancelled(w) \/ WorkerExit(w))
  /\ WF_vars(Collect \/ CollectorExit)
  /\ WF_vars(CloseResults \/ Drain)

DNSXLiveSpec == DNSXSpec /\ DNSXFairness

\* ------------------------------------------------------------------------
\* Two Execute calls on the one DNSXScanner of the factory
\* ------------------------------------------------------------------------

\* NewScannerFactoryWithBlobClient puts one DNSXScanner into the map; a
\* handler that outlives its attempt is still inside Execute when the next
\* attempt calls Execute on the same instance
Executions == 1..2

\* hosts each call resolves
OverlapHosts == 1

\* The scanner after NewDNSXScanner: the channel fields are nil (0), the two
\* wait groups are made once. A channel is named after the call that made
\* it. Per call: the position of processDNSResolutionOptimized and of its
\* goroutines, and the channel each goroutine has bound
NewSharedScanner ==
  [pc |-> "shared",
   workerChan |-> 0,                           \* s.workerChan
   resultChan |-> 0,                           \* s.resultChan
   wgWorkers |-> 0,                            \* s.wgWorkers
   wgResults |-> 0,                            \* s.wgResults
   workQ |-> [c \in Executions |-> 0],         \* items buffered per work channel
   resQ |-> [c \in Executions |-> 0],          \* items buffered per result channel
   workClosed |-> {},
   resClosed |-> {},
   panic |-> FALSE,                            \* send on or close of a closed channel
   used |-> [e \in Executions |-> {}],         \* channels the goroutines of a call touched
   ex |-> [e \in Executions |->
             [main |-> "idle",
              feeder |-> "unstarted", fed |-> 0, closeCh |-> 0,
              collector |-> "unstarted", cch |-> 0,
              wst |-> [w \in Workers |-> "unstarted"],
              wch |-> [w \in Workers |-> 0]]]]

SharedScanner == IF dnsxCall.pc = "idle" THEN NewSharedScanner ELSE dnsxCall

SharedRunning == dnsxCall.pc = "shared" /\ ~dnsxCall.panic

Touch(sc, e, ch) == [sc EXCEPT !.used[e] = @ \cup {ch}]

\* processDNSResolutionOptimized up to its wait: the two make() assign the
\* fields of the scanner, wgResults.Add(1) and the go of the collector,
\* wgWorkers.Add(1) and the go of each worker, the go of the feeder
OverlapExecute(e) ==
  /\ dnsxCall.pc \in {"idle", "shared"}
  /\ ~SharedScanner.panic
  /\ SharedScanner.ex[e].main = "idle"
  /\ dnsxCall' = [SharedScanner EXCEPT
                    !.workerChan = e,
                    !.resultChan = e,
                    !.wgResults = @ + 1,
                    !.wgWorkers = @ + workerCount,
                    !.ex[e].main = "wait",
                    !.ex[e].collector = "spawned",
                    !.ex[e].feeder = "spawned",
                    !.ex[e].wst = [w \in Workers |-> "spawned"]]
  /\ UNCHANGED <<lifecycleVars, taskCall, finalizeCall>>

\* the collector goroutine reaches `for result := range s.resultChan`: the
\* field is read once, now
OverlapCollectorStart(e) ==
  /\ SharedRunning
  /\ dnsxCall.ex[e].collector = "spawned"
  /\ dnsxCall' = Touch([dnsxCall EXCEPT !.ex[e].collector = "ranging",
                                        !.ex[e].cch = dnsxCall.resultChan],
                       e, dnsxCall.resultChan)
  /\ UNCHANGED <<lifecycleVars, taskCall, finalizeCall>>

\* shardedResults.Set of one received result
OverlapCollect(e) ==
  /\ SharedRunning
  /\ dnsxCall.ex[e].collector = "ranging"
  /\ dnsxCall.resQ[dnsxCall.ex[e].cch] > 0
  /\ dnsxCall' = [dnsxCall EXCEPT !.resQ[dnsxCall.ex[e].cch] = @ - 1]
  /\ UNCHANGED <<lifecycleVars, taskCall, finalizeCall>>

\* the range ends when the bound channel is closed and drained;
\* defer s.wgResults.Done()
OverlapCollectorExit(e) ==
  /\ SharedRunning
  /\ dnsxCall.ex[e].collector = "ranging"
  /\ dnsxCall.resQ[dnsxCall.ex[e].cch] = 0
  /\ dnsxCall.ex[e].cch \in dnsxCall.resClosed
  /\ dnsxCall' = [dnsxCall EXCEPT !.ex[e].collector = "exited",
                                  !.wgResults = @ - 1]
  /\ UNCHANGED <<lifecycleVars, taskCall, finalizeCall>>

\* the feeder goroutine starts: `defer close(s.workerChan)` evaluates its
\* argument when the defer statement runs
OverlapFeederStart(e) ==
  /\ SharedRunning
  /\ dnsxCall.ex[e].feeder = "spawned"
  /\ dnsxCall' = [dnsxCall EXCEPT !.ex[e].feeder = "feeding",
                                  !.ex[e].closeCh = dnsxCall.workerChan]
  /\ UNCHANGED <<lifecycleVars, taskCall, finalizeCall>>

\* `case s.workerChan <- subdomain`: the field is read at every send; the
\* send waits while the buffer is full and panics on a closed channel
OverlapFeed(e) ==
  /\ SharedRunning
  /\ dnsxCall.ex[e].feeder = "feeding"
  /\ dnsxCall.ex[e].fed < OverlapHosts
  /\ LET ch == dnsxCall.workerChan IN
       IF ch \in dnsxCall.workClosed
         THEN dnsxCall' = Touch([dnsxCall EXCEPT !.panic = TRUE], e, ch)
         ELSE /\ dnsxCall.workQ[ch] < workerBuffer(OverlapHosts)
              /\ dnsxCall' = Touch([dnsxCall EXCEPT !.workQ[ch] = @ + 1,
                                                    !.ex[e].fed = @ + 1], e, ch)
  /\ UNCHANGED <<lifecycleVars, taskCall, finalizeCall>>

\* the feeder returns: the deferred close of the channel bound at its start
OverlapFeederClose(e) ==
  /\ SharedRunning
  /\ dnsxCall.ex[e].feeder = "feeding"
  /\ dnsxCall.ex[e].fed = OverlapHosts
  /\ LET ch == dnsxCall.ex[e].closeCh IN
       dnsxCall' = Touch([dnsxCall EXCEPT !.ex[e].feeder = "exited",
                                          !.workClosed = @ \cup {ch},
                                          !.panic = (ch \in dnsxCall.workClosed)],
                         e, ch)
  /\ UNCHANGED <<lifecycleVars, taskCall, finalizeCall>>

\* a worker goroutine reaches `for subdomain := range s.workerChan`
OverlapWorkerStart(e, w) ==
  /\ SharedRunning
  /\ dnsxCall.ex[e].wst[w] = "spawned"
  /\ dnsxCall' = Touch([dnsxCall EXCEPT !.ex[e].wst[w] = "ranging",
                                        !.ex[e].wch[w] = dnsxCall.workerChan],
                       e, dnsxCall.workerChan)
  /\ UNCHANGED <<lifecycleVars, taskCall, finalizeCall>>

\* the worker receives a host and looks it up
OverlapWorkerTake(e, w) ==
  /\ SharedRunning
  /\ dnsxCall.ex[e].wst[w] = "ranging"
  /\ dnsxCall.workQ[dnsxCall.ex[e].wch[w]] > 0
  /\ dnsxCall' = [dnsxCall EXCEPT !.workQ[dnsxCall.ex[e].wch[w]] = @ - 1,
                                  !.ex[e].wst[w] = "holding"]
  /\ UNCHANGED <<lifecycleVars, taskCall, finalizeCall>>

\* `case s.resultChan <- ...`: the field is read at the send
OverlapWorkerSend(e, w) ==
  /\ SharedRunning
  /\ dnsxCall.ex[e].wst[w] = "holding"
  /\ LET ch == dnsxCall.resultChan IN
       IF ch \in dnsxCall.resClosed
         THEN dnsxCall' = Touch([dnsxCall EXCEPT !.panic = TRUE], e, ch)
         ELSE /\ dnsxCall.resQ[ch] < resultBuffer(OverlapHosts)
              /\ dnsxCall' = Touch([dnsxCall EXCEPT !.resQ[ch] = @ + 1,
                                                    !.ex[e].wst[w] = "ranging"], e, ch)
  /\ UNCHANGED <<lifecycleVars, taskCall, finalizeCall>>

\* the range of the worker ends; defer s.wgWorkers.Done()
OverlapWorkerExit(e, w) ==
  /\ SharedRunning
  /\ dnsxCall.ex[e].wst[w] = "ranging"
  /\ dnsxCall.workQ[dnsxCall.ex[e].wch[w]] = 0
  /\ dnsxCall.ex[e].wch[w] \in dnsxCall.workClosed
  /\ dnsxCall' = [dnsxCall EXCEPT !.ex[e].wst[w] = "exited",
                                  !.wgWorkers = @ - 1]
  /\ UNCHANGED <<lifecycleVars, taskCall, finalizeCall>>

\* s.wgWorkers.Wait() returns when the counter of the scanner is zero, then
\* close(s.resultChan) closes the channel the field holds now
OverlapCloseResults(e) ==
  /\ SharedRunning
  /\ dnsxCall.ex[e].main = "wait"
  /\ dnsxCall.wgWorkers = 0
  /\ LET ch == dnsxCall.resultChan IN
       dnsxCall' = Touch([dnsxCall EXCEPT !.ex[e].main = "closed",
                                          !.resClosed = @ \cup {ch},
                                          !.panic = (ch \in dnsxCall.resClosed)],
                         e, ch)
  /\ UNCHANGED <<lifecycleVars, taskCall, finalizeCall>>

\* s.wgResults.Wait(), return shardedResults.GetAll()
OverlapReturn(e) ==
  /\ SharedRunning
  /\ dnsxCall.ex[e].main = "closed"
  /\ dnsxCall.wgResults = 0
  /\ dnsxCall' = [dnsxCall EXCEPT !.ex[e].main = "returned"]
  /\ UNCHANGED <<lifecycleVars, taskCall, finalizeCall>>

OverlapNext ==
  \/ \E e \in Executions : OverlapExecute(e)
  \/ \E e \in Executions : OverlapCollectorStart(e)
  \/ \E e \in Executions : OverlapCollect(e)
  \/ \E e \in Executions : OverlapCollectorExit(e)
  \/ \E e \in Executions : OverlapFeederStart(e)
  \/ \E e \in Executions : OverlapFeed(e)
  \/ \E e \in Executions : OverlapFeederClose(e)
  \/ \E e \in Executions : \E w \in Workers : OverlapWorkerStart(e, w)
  \/ \E e \in Executions : \E w \in Workers : OverlapWorkerTake(e, w)
  \/ \E e \in Executions : \E w \in Workers : OverlapWorkerSend(e, w)
  \/ \E e \in Executions : \E w \in Workers : OverlapWorkerExit(e, w)
  \/ \E e \in Executions : OverlapCloseResults(e)
  \/ \E e \in Executions : OverlapReturn(e)

OverlapSpec == Init /\ [][OverlapNext]_vars

\* ------------------------------------------------------------------------
\* Properties
\* ------------------------------------------------------------------------

\* The current receipt has been finalised: handleMessageResult has run
Finalised == received > 0 /\ wpc \in {"poll", "stopped"}

IsPrefix(p, q) == Len(p) <= Len(q) /\ \A i \in 1..Len(p) : p[i] = q[i]

ExecutingHandlers ==
  Cardinality({a \in Attempts : hpc[a] \in Running}) + (IF leaked THEN 1 ELSE 0)

\* C1: for every receipt at most one of complete, abandon and dead-letter
\* is invoked, whatever the attempts of the retry engine did.
C1_AtMostOneFinalization == Len(finalOps) <= 1

C1_Witness ==
  /\ Finalised
  /\ Len(finalOps) = 1
  /\ Len(waits) = maxRetries

\* C2: the broker operation is a function of the final result: complete on
\* success; abandon on a retryable failure with retry_count < 3;
\* dead-letter in every other case.
C2_Expected(r) ==
  IF r.success THEN "complete"
  ELSE IF r.retryable /\ r.retryCount < 3 THEN "abandon"
  ELSE "dead_letter"

C2_FinalizationByResult ==
  /\ \A r \in [success : BOOLEAN, retryable : BOOLEAN,
               retryCount : 0..(maxRetries + 1), err : {"none", "network"}] :
       handleMessageResult(r) = <<C2_Expected(r)>>
  /\ Finalised => finalOps = <<C2_Expected(result)>>

C2_Witness ==
  /\ Finalised
  /\ ~result.success
  /\ result.retryable
  /\ result.retryCount = 3
  /\ finalOps = <<"dead_letter">>

\* C3 (as claimed): when every attempt of a receipt failed on a lease
\* renewal error, the message is abandoned and not dead-lettered.
C3_RenewalFailureAbandons ==
  (Finalised /\ failClass = "renewal" /\ result.err = "lock_renewal")
    => finalOps = <<"abandon">>

\* C4 (as claimed): when every attempt failed with a network, timeout or
\* scanner error, the handler was invoked at most 3 times and the waits are
\* a prefix of 1 s, 2 s, 4 s.
C4_AtMostThreeInvocations ==
  (Finalised /\ failClass = "transient" /\ ~result.success)
    => (invocations <= 3 /\ IsPrefix(waits, <<1, 2, 4>>))

\* C4 (amended): the handler is invoked at most 4 times for one receipt
\* (one first attempt and three retries); the waits between consecutive
\* attempts are 1 s, 2 s, 4 s; when every attempt failed with a network,
\* timeout or scanner error and nothing cancelled the engine, all 4
\* invocations and all 3 waits took place.
C4_AtMostFourInvocations ==
  /\ invocations <= 4
  /\ IsPrefix(waits, <<1, 2, 4>>)
  /\ (Finalised /\ failClass = "transient"
        /\ result.err \in {"network", "timeout", "scanner"})
       => (invocations = 4 /\ waits = <<1, 2, 4>>)

C4_Witness ==
  /\ Finalised
  /\ failClass = "transient"
  /\ result.err = "timeout"
  /\ invocations = 4
  /\ waits = <<1, 2, 4>>

\* C5: an attempt that fails with a validation, permission, not_found or
\* configuration error ends the retry engine: that attempt is the last
\* handler invocation of the receipt and no backoff wait follows it.
C5_PermanentKinds == {"validation", "permission", "not_found", "configuration"}

C5_NoRetryOnPermanentError ==
  result.err \in C5_PermanentKinds
    => /\ wpc \in {"handle_result", "poll", "stopped"}
       /\ invocations = result.retryCount + 1
       /\ Len(waits) = result.retryCount

C5_Witness ==
  /\ Finalised
  /\ result.err = "configuration"
  /\ result.retryCount = 1
  /\ invocations = 2
  /\ waits = <<1>>

\* C6: when the supervisor returns while a renewal error is pending and the
\* handler of the attempt has not returned, operationCtx is cancelled and
\* the result of the attempt is a failure marked retryable.
C6_RenewalFailureAbortsAttempt ==
  [][(/\ wpc = "supervise"
      /\ renewalError # <<>>
      /\ hpc[attempt] \in Running
      /\ wpc' # "supervise")
     => (/\ opCtx' = "done"
         /\ ~result'.success
         /\ result'.retryable
         /\ result'.retryCount = attempt)]_vars

C6_Witness ==
  /\ wpc = "backoff"
  /\ result.err = "lock_renewal"
  /\ result.retryable
  /\ hpc[attempt] \in Running
  /\ opCtx = "done"

\* C7 (as claimed): the renewer renews before it enters the ticker loop,
\* and that first renewal has been issued by the time the handler of the
\* attempt has begun its scan.
C7_RenewedBeforeWorkBegins ==
  /\ rpc = "loop" => renewals >= 1
  /\ (wpc = "supervise" /\ hpc[attempt] \in {"store", "notify"}) => renewals >= 1

\* C7 (amended): in every attempt the renewer has issued its first lease
\* renewal before it enters the ticker loop; the handler runs concurrently
\* and is not ordered after that renewal.
C7_RenewedBeforeTickerLoop == rpc = "loop" => renewals >= 1

C7_Witness ==
  /\ wpc = "supervise"
  /\ rpc = "loop"
  /\ renewals = 1
  /\ hpc[attempt] = "run"

\* C8 (as claimed): every received message has had a lease renewal issued
\* for it (here: once it is finalised after at most one attempt and no
\* renewer is still about to issue its first renewal).
C8_EveryReceiptRenewed ==
  (Finalised /\ invocations <= 1 /\ rpc # "init") => renewals >= 1

\* C8 (amended): when the body parses and an attempt starts, the renewer of
\* the attempt issues its first renewal without waiting for a tick of
\* lease_renewal_interval; a receipt for which no attempt started (body not
\* JSON, context already cancelled) gets no renewal at all.
C8_FirstRenewalBeforeFirstTick ==
  /\ renewals >= 1 => renewals = ticksTaken + 1
  /\ invocations = 0 => renewals = 0

C8_Witness ==
  /\ wpc = "supervise"
  /\ rpc = "loop"
  /\ ticksTaken = 0
  /\ renewals = 1

\* C9 (as claimed): at any moment at most one handler invocation is
\* executing in the worker process.
C9_OneHandlerAtATime == ExecutingHandlers <= 1

C11_EngineBypassed ==
  (received > 0 /\ msg = "bad_json")
    => wpc \notin {"attempt", "backoff", "supervise"}

\* C11 (amended): the body is parsed inside the first attempt of
\* ProcessMessage; the parse failure is not retryable, so for such a message
\* there is no second attempt, no backoff wait, no lease renewal and no
\* handler invocation, and the receipt ends in a dead-letter.
C11_ParseFailureDeadLettered ==
  (received > 0 /\ msg = "bad_json")
    => /\ attempt = 0
       /\ invocations = 0
       /\ \A a \in Attempts : hpc[a] = "none"
       /\ rpc = "none"
       /\ renewals = 0
       /\ waits = <<>>
       /\ wpc \notin {"backoff", "supervise"}
       /\ wpc = "handle_result" => (~result.success /\ ~result.retryable)
       /\ Finalised => finalOps = <<"dead_letter">>

C11_Witness ==
  /\ Finalised
  /\ msg = "bad_json"
  /\ result = ParseFailureResult
  /\ finalOps = <<"dead_letter">>

\* C17: when the parent context is cancelled at the top of an attempt or
\* during a backoff wait, the handler is not invoked again, and the engine
\* returns success=false, retryable=false, the context error and
\* retry_count = the attempt index at that point.
C17_CancelledEngineReturns ==
  [][(ctxCancelled /\ wpc \in {"attempt", "backoff"})
       => /\ invocations' = invocations
          /\ \A a \in Attempts : hpc[a] = "none" => hpc'[a] = "none"
          /\ wpc' = "handle_result"
               => result' = Res(FALSE, FALSE, attempt, "context")]_vars

C17_Witness ==
  /\ ctxCancelled
  /\ wpc = "handle_result"
  /\ attempt >= 1
  /\ Len(waits) = attempt
  /\ result = Res(FALSE, FALSE, attempt, "context")

\* C12: a message whose task kind is not a known kind is rejected by
\* HandleTask with a non-retryable failure: no scanner is looked up or
\* executed, nothing is written to the blob store, no completion event is
\* sent, and the retry engine and handleMessageResult turn the result into
\* a dead-letter after the first attempt.
C12_UnknownKinds ==
  TaskKinds \ {"subfinder", "httpx", "dns_resolve", "port_scan", "nuclei", "dnsx"}

C12_UnknownTaskRejected ==
  (/\ taskCall.pc # "idle"
   /\ taskCall.task.entry = "HandleTask"
   /\ taskCall.task.kind \in C12_UnknownKinds)
    => /\ taskCall.pc = "returned"
       /\ ~taskCall.result.success
       /\ ~taskCall.result.retryable
       /\ taskCall.scanner = "none"
       /\ taskCall.exec = "none"
       /\ taskCall.store = "none"
       /\ taskCall.notify = "none"
       /\ EngineDecision(taskCall.result, 0) = "return"
       /\ handleMessageResult(taskCall.result) = <<"dead_letter">>

C12_Witness ==
  /\ taskCall.pc = "returned"
  /\ taskCall.task = Call("HandleTask", [kind |-> "unknown_xyz",
                                         domain |-> "example.com",
                                         scanId |-> 7, instanceId |-> "I1"])
  /\ taskCall.result = createFailureResult("invalid task type", FALSE)

C14_ValidationFailureNotPersisted ==
  (/\ taskCall.pc # "idle"
   /\ \/ /\ taskCall.task.entry = "HandleTask"
         /\ ValidateTaskMessage(taskCall.task) # "ok"
      \/ /\ taskCall.pc # "process"
         /\ ValidateInput(ScannerInput(taskCall.task)) # "ok")
    => /\ taskCall.pc = "returned"
       /\ ~taskCall.result.success
       /\ ~taskCall.result.retryable
       /\ taskCall.exec = "none"
       /\ taskCall.store = "none"
       /\ taskCall.notify = "none"

C14_Witness ==
  /\ taskCall.pc = "returned"
  /\ taskCall.task = Call("HandleTask", [kind |-> "httpx", domain |-> "example.com",
                                         scanId |-> 0, instanceId |-> "I1"])
  /\ taskCall.result = createFailureResult("scan_id is required", FALSE)
  /\ taskCall.store = "none"

\* C15: when the scanner succeeded and the blob write fails, whatever the
\* kind of the storage error, the call returns success=false with
\* retryable=true.
C15_StorageFailureRetryable ==
  (/\ taskCall.pc = "returned"
   /\ taskCall.exec = "ok"
   /\ taskCall.store \notin {"none", "ok"})
    => (~taskCall.result.success /\ taskCall.result.retryable)

C15_Witness ==
  /\ taskCall.pc = "returned"
  /\ taskCall.exec = "ok"
  /\ taskCall.store = "permission"
  /\ taskCall.result = createFailureResult("permission", TRUE)

\* C16: when the scan and the blob write succeeded the call returns
\* success=true, whether the completion notification and the step
\* notifications succeeded or failed.
C16_NotificationsNeverFailTask ==
  (taskCall.pc = "returned" /\ taskCall.exec = "ok" /\ taskCall.store = "ok")
    => taskCall.result = SuccessResult

C16_Witness ==
  /\ taskCall.pc = "returned"
  /\ taskCall.exec = "ok"
  /\ taskCall.store = "ok"
  /\ taskCall.notify = "failed"
  /\ taskCall.stepFailed
  /\ taskCall.result.success

\* Host names of the input after trimming, the empty ones dropped
CleanHosts ==
  {TrimSpace(dnsxCall.subdomains[i]) : i \in 1..Len(dnsxCall.subdomains)} \ {""}

EntriesOf(h) == {e \in dnsxCall.records : e.domain = h}

C19_NeverOverwritten == dnsxCall.pc # "idle" => ~dnsxCall.overwritten

\* C20: the mapping drained at the end holds every result that a worker
\* published to the result channel.
C20_DrainHasEveryPublished ==
  dnsxCall.pc = "returned" => dnsxCall.published \subseteq dnsxCall.records

AllWorkersExited == \A w \in Workers : dnsxCall.wst[w].pc = "exited"

PoolTerminated ==
  /\ dnsxCall.pc = "returned"
  /\ dnsxCall.workerChanClosed
  /\ AllWorkersExited
  /\ dnsxCall.resultChanClosed
  /\ dnsxCall.collectorDone

C23_NoTakeNoQueryAfterCancel ==
  [][(dnsxCall.pc \in Started /\ dnsxCall.ctx)
       => /\ Len(dnsxCall'.workerChan) >= Len(dnsxCall.workerChan)
          /\ \A w \in Workers :
               dnsxCall'.wst[w].pc = "send" => dnsxCall.wst[w].pc = "send"]_vars

\* C23: once the context is cancelled, a worker that receives a host from
\* the work channel returns without querying it: no worker goes from the
\* receive to a lookup, and a host leaves the work channel only into a
\* worker that returns. (The host is taken before the context is checked,
\* and a lookup whose check passed before the cancellation still runs.)
C23_WorkerReturnsAtNextHost ==
  [][(dnsxCall.pc \in Started /\ dnsxCall.ctx)
       => /\ \A w \in Workers :
               dnsxCall.wst[w].pc = "recv"
                 => dnsxCall'.wst[w].pc \in {"recv", "exited"}
          /\ Len(dnsxCall'.workerChan) < Len(dnsxCall.workerChan)
               => \E w \in Workers : /\ dnsxCall.wst[w].pc = "recv"
                                      /\ dnsxCall'.wst[w].pc = "exited"]_vars

C23_Witness ==
  /\ dnsxCall.pc = "returned"
  /\ dnsxCall.ctx
  /\ dnsxCall.dropped
  /\ dnsxCall.records = {}

C25_DeadLetterCarriesReason ==
  (Finalised /\ finalOps = <<"dead_letter">>)
    => IF result.err = "parse"
         THEN DeadLetterOptions(result).reason = "InvalidMessageFormat"
         ELSE /\ DeadLetterOptions(result).reason = "ProcessingFailed"
              /\ DeadLetterOptions(result).description # ""

RetryableKinds == {"network", "timeout", "scanner", "internal"}

\* C27: the retryability verdict follows the error kind: a network,
\* timeout, scanner or internal error is retryable; a validation,
\* configuration, permission or not_found error is not.  Checked on the
\* result processTask returns for a typed error of scanner.Execute
C27_RetryableByKind ==
  (taskCall.pc = "returned" /\ taskCall.exec \in ErrorTypes)
    => /\ ~taskCall.result.success
       /\ taskCall.result.retryable = (taskCall.exec \in RetryableKinds)

\* C27 witness: an internal error of scanner.Execute was returned retryable
C27_Witness ==
  /\ taskCall.pc = "returned"
  /\ taskCall.exec = "internal"
  /\ taskCall.result.retryable

\* The eight permanent patterns of the error-handling description
EightPermanentPatterns ==
  {<<"unknown", "task", "type">>, <<"domain", "is", "required">>,
   <<"invalid", "domain">>, <<"not", "yet", "implemented">>,
   <<"permission", "denied">>, <<"unauthorized">>, <<"forbidden">>,
   <<"not", "found">>}

\* scanner.Execute returned an error that is not an AppError
UntypedReturned == taskCall.pc = "returned" /\ taskCall.exec = "untyped"

\* C28 as stated: an error that is not an AppError and whose text contains
\* none of the eight permanent patterns is classified retryable
C28_RetryableUnlessEightPatterns ==
  (/\ UntypedReturned
   /\ \A p \in EightPermanentPatterns : ~Contains(ToLower(taskCall.execText), p))
    => taskCall.result.retryable

\* C28 amended: an error that is not an AppError and whose text contains
\* none of the eleven patterns of permanentErrors (the eight, and
\* "invalid", "scan_id is required", "task type is required") is
\* classified retryable
C28_RetryableUnlessPermanentPattern ==
  (/\ UntypedReturned
   /\ \A p \in permanentErrors : ~Contains(ToLower(taskCall.execText), p))
    => taskCall.result.retryable

\* C28 witness: an error whose text matches no pattern at all was returned
\* retryable
C28_Witness ==
  /\ UntypedReturned
  /\ \A p \in permanentErrors \cup retryableErrors :
       ~Contains(ToLower(taskCall.execText), p)
  /\ taskCall.result.retryable

\* The task kinds listed as accepted
AcceptedKinds == {"subfinder", "httpx", "dns_resolve", "port_scan", "nuclei", "dnsx"}

\* The scanner of an accepted kind: its own, the DNS scanner for the alias
OwnScanner(k) == IF k = "dnsx" THEN "dns_resolve" ELSE k

\* C29: a message of an accepted kind (subfinder, httpx, dns_resolve,
\* port_scan, nuclei, the alias dnsx) that is otherwise well-formed passes
\* validateTaskMessage and processTask obtains the kind's own scanner
C29_AcceptedKindsDispatched ==
  (/\ taskCall.pc # "idle"
   /\ taskCall.task.entry = "HandleTask"
   /\ taskCall.task.kind \in AcceptedKinds
   /\ taskCall.task.domain = "example.com"
   /\ taskCall.task.scanId # 0)
    => \/ taskCall.pc = "process"
       \/ taskCall.scanner = OwnScanner(taskCall.task.kind)

\* C30: a successful subfinder task has persisted its TaskResult as a JSON
\* object named {domain}-{scan_id}/subfinder/out/{uuid}.json with status
\* completed when HandleTask returns the success on which the message is
\* completed
C30_SubfinderResultStoredAsJSON ==
  (/\ taskCall.pc = "returned"
   /\ taskCall.task.entry = "HandleTask"
   /\ taskCall.task.kind = "subfinder"
   /\ taskCall.result.success)
    => /\ handleMessageResult(taskCall.result) = <<"complete">>
       /\ taskCall.blob.name = BlobName(taskCall.task.domain, taskCall.task.scanId,
                                        "subfinder", "json")
       /\ taskCall.blob.content = "TaskResult"
       /\ taskCall.blob.status = "completed"

\* A call of NotifyCompletionWithRetry was made and has returned
NotifierReturned == taskCall.pc = "returned" /\ taskCall.attempts.posts > 0

\* C31 as stated: a completion callback that keeps failing is attempted at
\* most 3 times per handler invocation
C31_AtMostThreePosts ==
  NotifierReturned => taskCall.attempts.posts <= 3

\* C31 amended: the callback is attempted at most maxRetries + 1 = 4 times
\* per handler invocation, the waits between the attempts are 1, 2, 4
\* seconds in this order, and a callback that failed every time ends the
\* call with an error after the fourth attempt
C31_AtMostFourPostsThenError ==
  NotifierReturned
    => /\ taskCall.attempts.posts <= maxRetries + 1
       /\ taskCall.attempts.waits = SubSeq(<<1, 2, 4>>, 1, taskCall.attempts.posts - 1)
       /\ (taskCall.attempts.delivered = 0
             => /\ taskCall.attempts.posts = maxRetries + 1
                /\ taskCall.attempts.err = "exhausted"
                /\ taskCall.notify = "failed")

\* C31 witness: the callback failed four times, with waits of 1, 2 and 4
\* seconds, and the call ended with the error
C31_Witness ==
  /\ NotifierReturned
  /\ taskCall.attempts.posts = 4
  /\ taskCall.attempts.waits = <<1, 2, 4>>
  /\ taskCall.attempts.err = "exhausted"

\* The subfinder scanner has returned a result
SubfinderExecuted ==
  /\ taskCall.pc \in {"store", "notify", "returned"}
  /\ taskCall.scanner = "subfinder"
  /\ taskCall.exec = "ok"

\* C32: the subdomain list of a subfinder execution contains each name at
\* most once, contains every name that was collected, and contains the
\* input domain itself
C32_UniqueNamesWithDomain ==
  SubfinderExecuted
    => /\ \A i, j \in 1..Len(taskCall.data) :
            taskCall.data[i] = taskCall.data[j] => i = j
       /\ \A i \in 1..Len(taskCall.found) : contains(taskCall.data, taskCall.found[i])
       /\ contains(taskCall.data, taskCall.task.domain)

\* C32 witness: a name was collected twice and the domain was not
\* collected; the list holds the name once, and the domain
C32_Witness ==
  /\ SubfinderExecuted
  /\ taskCall.found = <<"a.example.com", "a.example.com">>
  /\ taskCall.data = <<"a.example.com", "example.com">>

\* C33: when the handler of the attempt under supervision has run to
\* successful completion (its success is in the channel done), the
\* supervisor reports the attempt as a success, and the retry engine
\* returns it without another attempt
C33_CompletedAttemptNotReportedFailed ==
  [][(/\ wpc = "supervise"
      /\ done # <<>>
      /\ Head(done).success
      /\ storeRes[attempt] = "ok"
      /\ wpc' # "supervise")
       => (result'.success /\ wpc' = "handle_result")]_vars

\* C34: for every received message processing eventually ends and one of
\* complete, abandon, dead-letter is invoked for it
C34_EveryReceiptFinalized ==
  (wpc = "attempt") ~> (wpc = "poll" /\ Len(finalOps) >= 1)

\* C34 witness: a receipt that went through every backoff of the retry
\* engine has been finalized
C34_Witness ==
  /\ wpc = "poll"
  /\ Len(waits) = maxRetries
  /\ Len(finalOps) = 1

\* The retry engine returned because the parent context was cancelled
\* while the message of this receipt was being processed
ShutdownDuringProcessing ==
  /\ ctxCancelled
  /\ received >= 1
  /\ result = CancelledResult(attempt)

\* C35: a message whose processing was ended by the shutdown of the worker
\* is not dead-lettered: it is abandoned, or no finalization is invoked
\* and its lease expires
C35_ShutdownNeverDeadLetters ==
  ShutdownDuringProcessing => finalOps \in {<<>>, <<"abandon">>}

\* C36: a message is completed only if the result of its task was written
\* to the blob store during the processing of that receipt, by the handler
\* of the attempt whose success the engine returned
C36_CompletedOnlyIfStored ==
  (finalOps # <<>> /\ finalOps[1] = "complete")
    => /\ blobWrites >= 1
       /\ storeRes[result.retryCount] = "ok"

\* C36 witness: a message was completed after the blob write of its first
\* attempt
C36_Witness ==
  /\ finalOps = <<"complete">>
  /\ result.retryCount = 0
  /\ storeRes[0] = "ok"
  /\ blobWrites = 1

\* C37: the completion event of a task is sent only after the result of
\* the task was persisted in the same call of HandleTask: no POST is made
\* for a task that failed or whose result was not written
C37_EventOnlyAfterPersisted ==
  (taskCall.pc # "idle" /\ (taskCall.attempts.posts > 0 \/ taskCall.notify = "sent"))
    => /\ taskCall.exec = "ok"
       /\ taskCall.store = "ok"
       /\ taskCall.blob # NoBlob
       /\ taskCall.result.success

\* C37 witness: the event was delivered for a task whose TaskResult had
\* been written
C37_Witness ==
  /\ taskCall.pc = "returned"
  /\ taskCall.notify = "sent"
  /\ taskCall.attempts.delivered = 1
  /\ taskCall.store = "ok"
  /\ taskCall.blob.content = "TaskResult"

\* C38: after the message of a receipt has been finalized (completed,
\* abandoned or dead-lettered), no RenewMessageLock is issued for it
C38_NoRenewalAfterFinalization ==
  [][(wpc \in {"poll", "stopped"} /\ finalOps # <<>>)
       => ~(renewals' > renewals)]_vars

\* C39: an execution whose context was cancelled before every host was
\* resolved does not return a result: a returned DNSXResult has an entry
\* for every host of the input
C39_CancelledExecutionReturnsNoResult ==
  (dnsxCall.pc = "returned" /\ dnsxCall.ctx)
    => \A h \in CleanHosts : EntriesOf(h) # {}

\* C40: the feeder, the workers, the collector and the driver of an
\* execution touch only the channels that execution made, also while
\* another execution on the same scanner has not returned
C40_OwnChannelsOnly ==
  dnsxCall.pc = "shared" => \A e \in Executions : dnsxCall.used[e] \subseteq {e}

====
